---- MODULE Spec2Model ----
(***************************************************************************)
(* Model of useNavigationProgress (src/src/index.ts, lines 1-553): the     *)
(* step registry, the progress calculator, the update scheduler            *)
(* (Date.now() debounce + requestAnimationFrame + deferred 0 ms commits),  *)
(* the navigation state machine with its timers, the React effects that    *)
(* run when the committed status changes, and the URL classifier.          *)
(*                                                                         *)
(* Instants are integers (milliseconds) relative to the present: now is 0, *)
(* a past instant is negative, a due time is positive, and when time       *)
(* passes every stored instant is shifted.  Instants older than Horizon    *)
(* are kept as -Horizon: the code only compares an age with debounceMs.    *)
(* Every setTimeout / requestAnimationFrame callback is a record of the    *)
(* sequence `timers`, kept in insertion order; the callback that runs next *)
(* is the earliest due one, the first inserted among equals (the host's    *)
(* timer order).                                                           *)
(* A state commit (setStatus, setProgress, ...), the re-render it causes   *)
(* and the effects of that render are one step.                            *)
(***************************************************************************)
EXTENDS Integers, Sequences, FiniteSets, TLC

VARIABLES
    \* options (index.ts 44-52)
    timeout, steps, enableAutoComplete, debounceMs,
    showForHashAnchor, showForSamePageAnchor,
    \* React state (55-58)
    status, progress, duration, error,
    \* refs (61-67)
    prevPath, startTime, timeoutRef, rafRef, stepsRef, lastUpdateTime,
    isUnmounted,
    \* host environment
    pathname,       \* value returned by usePathname()
    timers,         \* pending setTimeout / requestAnimationFrame callbacks
    ops,            \* number of external operations so far
    last,           \* the handler or callback that ran in the last step
    \* classifier: window (typeof window !== "undefined"), window.location.href,
    \* the two arguments of shouldShowProgress and its result (<< >> before
    \* the call, << result >> after)
    hasWindow, locationHref, currentUrl, newUrl, shown,
    \* history bridge (423-454): window.history's two entry points as they
    \* are now, originalPushState / originalReplaceState as the listener effect
    \* captured them, and the entry points as they were before the mount
    history, originals, nativeHistory

optVars == <<timeout, steps, enableAutoComplete, debounceMs,
             showForHashAnchor, showForSamePageAnchor>>
hookVars == <<status, progress, duration, error, prevPath, startTime,
              timeoutRef, rafRef, stepsRef, lastUpdateTime, isUnmounted,
              history, originals>>
envVars == <<pathname, timers, ops, last>>
urlVars == <<hasWindow, locationHref, currentUrl, newUrl, shown,
            nativeHistory>>
vars == <<optVars, hookVars, envVars, urlVars>>

----------------------------------------------------------------------------
\* Bounds of the model

\* external operations (calls, events, waits) in one behaviour
MaxOps == 2
\* at most this many markStepComplete calls in a reordered batch
MaxCalls == 3
\* shortest and longest delay until the next animation frame
FrameMin == 1
FrameMax == 16
\* a debounce interval shorter than the longest frame delay
ShortDebounceMs == 5

----------------------------------------------------------------------------
\* Program constants

DefaultTimeout == 8000
DefaultDebounceMs == 100
RouteChangeDelay == 10
AutoFinishDelay == 50
IdleDelay == 300
ComponentMountDelay == 16
HydrationDelay == 100
CheckResourcesDelay == 150
ResourceTimerDelay == 2000
FallbackDelay == 3000

DEFAULT_STEPS ==
    << [name |-> "route_change", weight |-> 20],
       [name |-> "component_mount", weight |-> 30],
       [name |-> "hydration", weight |-> 25],
       [name |-> "resources_load", weight |-> 25] >>

\* the custom template of README.md "Custom Steps & Manual Control"
CUSTOM_STEPS ==
    << [name |-> "route_change", weight |-> 20],
       [name |-> "auth_check", weight |-> 15],
       [name |-> "data_fetch", weight |-> 40],
       [name |-> "render_complete", weight |-> 25] >>

\* a template whose weights are all zero
ZERO_STEPS ==
    << [name |-> "route_change", weight |-> 0],
       [name |-> "data_fetch", weight |-> 0] >>

Templates == {DEFAULT_STEPS, CUSTOM_STEPS, ZERO_STEPS}

\* instants further back than this are indistinguishable to the code
Horizon == DefaultDebounceMs

NavigationStatus == {"idle", "loading", "complete", "error"}

\* undefined / null
None == "undefined"
\* Date.now(): the present is the origin of time
now == 0
\* step.timestamp undefined and startTime.current null: falsy, no instant
NoTs == 1
Null == 1
\* NaN as a progress value (0 / 0)
NaN == -1

----------------------------------------------------------------------------
\* The hook's mutable state as one record, so that handlers compose

St ==
    [ status |-> status, progress |-> progress, duration |-> duration,
      error |-> error, startTime |-> startTime, timeoutRef |-> timeoutRef,
      rafRef |-> rafRef, stepsRef |-> stepsRef,
      lastUpdateTime |-> lastUpdateTime, isUnmounted |-> isUnmounted,
      timers |-> timers, history |-> history, originals |-> originals ]

Commit(s) ==
    /\ status' = s.status
    /\ progress' = s.progress
    /\ duration' = s.duration
    /\ error' = s.error
    /\ startTime' = s.startTime
    /\ timeoutRef' = s.timeoutRef
    /\ rafRef' = s.rafRef
    /\ stepsRef' = s.stepsRef
    /\ lastUpdateTime' = s.lastUpdateTime
    /\ isUnmounted' = s.isUnmounted
    /\ timers' = s.timers
    /\ history' = s.history
    /\ originals' = s.originals

\* a pending callback: k its kind, due the time it is due, cs the `status`
\* its closure captured, v its value (the computed progress), f whether a
\* ref / a live effect still holds its handle (so that it can be cancelled)
Timer(k, due, cs, v, f) == [k |-> k, due |-> due, cs |-> cs, v |-> v, f |-> f]

AddTimer(s, t) == [s EXCEPT !.timers = Append(@, t)]

RECURSIVE CancelHeldFrom(_, _, _)
CancelHeldFrom(ts, kinds, i) ==
    IF i > Len(ts) THEN << >>
    ELSE (IF ts[i].k \in kinds /\ ts[i].f THEN << >> ELSE << ts[i] >>)
             \o CancelHeldFrom(ts, kinds, i + 1)

\* clearTimeout / cancelAnimationFrame of the handles that are still held
CancelHeld(ts, kinds) == CancelHeldFrom(ts, kinds, 1)

----------------------------------------------------------------------------
\* Step registry and progress calculator

\* steps.map((step) => ({...step, completed: false}))
InitSteps(tpl) ==
    [i \in 1..Len(tpl) |->
        [name |-> tpl[i].name, weight |-> tpl[i].weight,
         completed |-> FALSE, timestamp |-> NoTs]]

\* stepsRef.current.find((s) => s.name === stepName): index, 0 when absent
FindStep(reg, stepName) ==
    LET hits == {i \in 1..Len(reg) : reg[i].name = stepName}
    IN  IF hits = {} THEN 0 ELSE CHOOSE i \in hits : \A j \in hits : i <= j

RECURSIVE SumWeights(_, _, _)
\* reduce((sum, step) => sum + step.weight, 0) over the steps that pass
SumWeights(reg, onlyCompleted, i) ==
    IF i > Len(reg) THEN 0
    ELSE (IF onlyCompleted /\ ~reg[i].completed THEN 0 ELSE reg[i].weight)
             + SumWeights(reg, onlyCompleted, i + 1)

TotalWeight(reg) == SumWeights(reg, FALSE, 1)
CompletedWeight(reg) == SumWeights(reg, TRUE, 1)

\* Math.round(x) for x = num / den >= 0: floor(x + 1/2)
MathRound(num, den) == (2 * num + den) \div (2 * den)

\* variant of the calculator that scales to 1000 instead of 100
NewProgressPerMille(reg) ==
    LET totalWeight == TotalWeight(reg)
        completedWeight == CompletedWeight(reg)
    IN  IF totalWeight = 0 THEN NaN
        ELSE LET r == MathRound(completedWeight * 1000, totalWeight)
             IN  IF r < 1000 THEN r ELSE 1000

\* Math.min(Math.round((completedWeight / totalWeight) * 100), 100);
\* 0 / 0 is NaN and stays NaN through Math.round and Math.min
NewProgress(reg) ==
    LET totalWeight == TotalWeight(reg)
        completedWeight == CompletedWeight(reg)
    IN  IF totalWeight = 0 THEN NaN
        ELSE LET r == MathRound(completedWeight * 100, totalWeight)
             IN  IF r < 100 THEN r ELSE 100

----------------------------------------------------------------------------
\* Handlers (functions of the hook), as state transformers

\* variant of reset that forgets to re-initialise the registry
ResetKeepsRegistry(s) ==
    LET s1 == IF s.timeoutRef
              THEN [s EXCEPT !.timers = CancelHeld(@, {"navTimeout"}),
                             !.timeoutRef = FALSE]
              ELSE s
        s2 == IF s1.rafRef
              THEN [s1 EXCEPT !.timers = CancelHeld(@, {"raf"}),
                              !.rafRef = FALSE]
              ELSE s1
        s4 == IF ~s2.isUnmounted
              THEN [s2 EXCEPT !.status = "idle", !.progress = 0,
                              !.duration = 0, !.error = None]
              ELSE s2
    IN  [s4 EXCEPT !.startTime = Null]

\* variant of reset that leaves the timeout timer armed
ResetKeepsTimeout(s) ==
    LET s2 == IF s.rafRef
              THEN [s EXCEPT !.timers = CancelHeld(@, {"raf"}),
                             !.rafRef = FALSE]
              ELSE s
        s3 == [s2 EXCEPT !.stepsRef = InitSteps(steps)]
        s4 == IF ~s3.isUnmounted
              THEN [s3 EXCEPT !.status = "idle", !.progress = 0,
                              !.duration = 0, !.error = None]
              ELSE s3
    IN  [s4 EXCEPT !.startTime = Null]

\* reset (249-272)
Reset(s) ==
    LET s1 == IF s.timeoutRef
              THEN [s EXCEPT !.timers = CancelHeld(@, {"navTimeout"}),
                             !.timeoutRef = FALSE]
              ELSE s
        s2 == IF s1.rafRef
              THEN [s1 EXCEPT !.timers = CancelHeld(@, {"raf"}),
                              !.rafRef = FALSE]
              ELSE s1
        s3 == [s2 EXCEPT !.stepsRef = InitSteps(steps)]
        s4 == IF ~s3.isUnmounted
              THEN [s3 EXCEPT !.status = "idle", !.progress = 0,
                              !.duration = 0, !.error = None]
              ELSE s3
    IN  [s4 EXCEPT !.startTime = Null]

\* variant of updateProgress without the debounce test
UpdateProgressUndebounced(s, cs, d) ==
    LET s1 == [s EXCEPT !.lastUpdateTime = now]
        s2 == IF s1.rafRef
              THEN [s1 EXCEPT !.timers = CancelHeld(@, {"raf"}),
                              !.rafRef = FALSE]
              ELSE s1
    IN  [AddTimer(s2, Timer("raf", now + d, cs, 0, TRUE))
            EXCEPT !.rafRef = TRUE]

\* variant of updateProgress that requests a frame without cancelling the
\* pending one
UpdateProgressKeepsFrame(s, cs, d) ==
    IF now - s.lastUpdateTime < debounceMs THEN s
    ELSE [AddTimer([s EXCEPT !.lastUpdateTime = now],
                   Timer("raf", now + d, cs, 0, TRUE))
             EXCEPT !.rafRef = TRUE]

\* updateProgress (199-246), up to the frame request; cs is the `status` the
\* closure captured, d the delay until the next animation frame
UpdateProgress(s, cs, d) ==
    IF now - s.lastUpdateTime < debounceMs THEN s
    ELSE LET s1 == [s EXCEPT !.lastUpdateTime = now]
             s2 == IF s1.rafRef
                   THEN [s1 EXCEPT !.timers = CancelHeld(@, {"raf"}),
                                   !.rafRef = FALSE]
                   ELSE s1
         IN  [AddTimer(s2, Timer("raf", now + d, cs, 0, TRUE))
                 EXCEPT !.rafRef = TRUE]

\* variant of the guard of markStepComplete without the !step.completed test
StepToMarkAgain(reg, stepName) == FindStep(reg, stepName)

\* const step = find(...); if (step && !step.completed) (279-280): the index
\* of the step the call completes, 0 when it completes none
StepToMark(reg, stepName) ==
    LET i == FindStep(reg, stepName)
    IN  IF i # 0 /\ ~reg[i].completed THEN i ELSE 0

\* variant of the completion that writes every flag: completed only for the
\* step just marked
MarkStepExclusive(reg, stepName, t) ==
    LET i == StepToMark(reg, stepName)
    IN  IF i # 0
        THEN [j \in 1..Len(reg) |->
                 IF j = i
                 THEN [reg[j] EXCEPT !.completed = TRUE, !.timestamp = t]
                 ELSE [reg[j] EXCEPT !.completed = FALSE]]
        ELSE reg

\* the registry after markStepComplete(stepName) at time t (279-283)
MarkStep(reg, stepName, t) ==
    LET i == StepToMark(reg, stepName)
    IN  IF i # 0
        THEN [reg EXCEPT ![i].completed = TRUE, ![i].timestamp = t]
        ELSE reg

\* variant of markStepComplete that requests a recomputation on every call
MarkStepCompleteAlwaysUpdates(s, stepName, cs, d) ==
    IF s.isUnmounted THEN s
    ELSE UpdateProgress([s EXCEPT !.stepsRef = MarkStep(@, stepName, now)],
                        cs, d)

\* markStepComplete (275-292)
MarkStepComplete(s, stepName, cs, d) ==
    IF s.isUnmounted THEN s
    ELSE IF StepToMark(s.stepsRef, stepName) # 0
    THEN UpdateProgress([s EXCEPT !.stepsRef = MarkStep(@, stepName, now)],
                        cs, d)
    ELSE s

\* variant of startNavigation without the route_change timer
StartNavigationNoRouteChange(s, cs) ==
    IF s.isUnmounted THEN s
    ELSE LET s1 == [Reset(s) EXCEPT !.startTime = now]
             s2 == AddTimer(s1, Timer("loadingCommit", now, cs, 0, FALSE))
         IN  [AddTimer(s2, Timer("navTimeout", now + timeout, cs, 0, TRUE))
                 EXCEPT !.timeoutRef = TRUE]

\* startNavigation (295-335); cs is the `status` of the render whose
\* startNavigation was invoked (captured by its markStepComplete)
StartNavigation(s, cs) ==
    IF s.isUnmounted THEN s
    ELSE LET s1 == [Reset(s) EXCEPT !.startTime = now]
             s2 == AddTimer(s1, Timer("loadingCommit", now, cs, 0, FALSE))
             s3 == AddTimer(s2, Timer("routeChange", now + RouteChangeDelay,
                                      cs, 0, FALSE))
         IN  [AddTimer(s3, Timer("navTimeout", now + timeout, cs, 0, TRUE))
                 EXCEPT !.timeoutRef = TRUE]

\* stepsRef.current.forEach(... completed = true; timestamp ||= now) (347-350)
CompleteAll(reg, t) ==
    [i \in 1..Len(reg) |->
        [reg[i] EXCEPT !.completed = TRUE,
                       !.timestamp = IF @ <= now THEN @ ELSE t]]

\* finish (338-369), up to its deferred commit
Finish(s) ==
    IF s.isUnmounted THEN s
    ELSE LET s1 == IF s.timeoutRef
                   THEN [s EXCEPT !.timers = CancelHeld(@, {"navTimeout"}),
                                  !.timeoutRef = FALSE]
                   ELSE s
             s2 == [s1 EXCEPT !.stepsRef = CompleteAll(@, now)]
         IN  AddTimer(s2, Timer("finishCommit", now, "-", 0, FALSE))

----------------------------------------------------------------------------
\* Effects that depend on the committed status (457-464, 467-531)

EffectKinds == {"componentMount", "hydration", "resourceTimer", "fallback"}

\* a checkResources callback outlives the cleanup of its effect (507 is not
\* cleared in 526-530): afterwards the resource timer it sets is held by a
\* dead closure and nothing clears it
Orphan(ts) ==
    [i \in 1..Len(ts) |->
        IF ts[i].k = "checkResources" THEN [ts[i] EXCEPT !.f = FALSE]
        ELSE ts[i]]

\* the cleanups of the two status effects (462, 526-530)
EffectCleanup(s) ==
    [s EXCEPT !.timers = Orphan(CancelHeld(@, EffectKinds))]

\* the bodies of the two status effects, run after a render with a new status
EffectSetup(s) ==
    IF s.status = "loading" /\ ~s.isUnmounted
    THEN LET s1 == AddTimer(s, Timer("componentMount",
                                now + ComponentMountDelay, "loading", 0, TRUE))
         IN  IF ~enableAutoComplete THEN s1
             ELSE LET s2 == AddTimer(s1, Timer("hydration",
                                now + HydrationDelay, "loading", 0, TRUE))
                      s3 == AddTimer(s2, Timer("checkResources",
                                now + CheckResourcesDelay, "loading", 0, TRUE))
                  IN  AddTimer(s3, Timer("fallback", now + FallbackDelay,
                                         "loading", 0, TRUE))
    ELSE s

\* A function at a history entry point is the sequence of what a call of it
\* runs, innermost first: the browser's own function, a patch some other
\* code (a router) put around it, the tracker's wrapper
Native == << "native" >>
Patched == << "native", "router" >>
Entries == {"pushState", "replaceState"}

\* function (...args) { finish(); return original.apply(this, args) }
\* (431-439)
Wrap(f) == Append(f, "finish")

\* calling f invokes finish
InvokesFinish(f) == \E i \in 1..Len(f) : f[i] = "finish"

\* the body of the listener effect (424-442): the current entry points are
\* captured and replaced by wrappers
ListenerSetup(s) ==
    IF ~hasWindow THEN s
    ELSE [s EXCEPT !.originals = s.history,
                   !.history = [e \in Entries |-> Wrap(s.history[e])]]

\* variant of the cleanup that restores replaceState only
ListenerCleanupKeepsPush(s) ==
    IF ~hasWindow THEN s
    ELSE [s EXCEPT !.history = [s.history EXCEPT
                                   !.replaceState = s.originals.replaceState]]

\* the cleanup of the listener effect (447-453): the captured functions are
\* put back
ListenerCleanup(s) ==
    IF ~hasWindow THEN s
    ELSE [s EXCEPT !.history = s.originals]

\* the bridge after the mount on a window whose entry points are h: the
\* listener effect has run once
Mounted(h) == ListenerSetup([history |-> h, originals |-> h])

\* the render after a handler or callback: the status effects re-run when
\* the committed status (hence markStepComplete) changed, and so does the
\* listener effect, whose handleClick depends on the status through
\* startNavigation, markStepComplete and updateProgress (246, 292, 335, 409);
\* all cleanups run before the bodies
Render(s) ==
    IF s.status = status THEN s
    ELSE EffectSetup(ListenerSetup(ListenerCleanup(EffectCleanup(s))))

----------------------------------------------------------------------------
\* URL strings and the URL parser of the host (new URL(url, base))
\*
\* A URL string is the record of its syntactic parts, as written: scheme
\* ("" for a relative reference), host (its labels, as spelled), path, query
\* and hash (None when the "?" / "#" is absent, "" when nothing follows it),
\* bad (a string no base makes parseable, e.g. "http://[").  Two strings are
\* equal exactly when their records are.

UrlString(scheme, host, path, query, hash, bad) ==
    [scheme |-> scheme, host |-> host, path |-> path, query |-> query,
     hash |-> hash, bad |-> bad]

HierSchemes == {"http", "https"}

\* ASCII lower-casing of a host label
LowerLabel(l) ==
    CASE l = "WWW" -> "www"
      [] l = "A" -> "a"
      [] OTHER -> l

LowerHost(h) == [i \in 1..Len(h) |-> LowerLabel(h[i])]

NoBase == [bad |-> TRUE]
ParseError == [ok |-> FALSE]

\* new URL(url) (base = NoBase) and new URL(url, base): the parsed URL,
\* whose href is the normalised string, or ParseError when it throws
ParseURL(url, base) ==
    IF url.bad THEN ParseError
    ELSE IF url.scheme = ""
    THEN \* relative reference: resolved against the base
         IF base.bad \/ base.scheme \notin HierSchemes THEN ParseError
         ELSE [ok |-> TRUE, scheme |-> base.scheme,
               host |-> LowerHost(base.host),
               path |-> IF url.path # "" THEN url.path
                        ELSE IF base.path = "" THEN "/" ELSE base.path,
               query |-> IF url.path = "" /\ url.query = None
                         THEN base.query ELSE url.query,
               hash |-> url.hash]
    ELSE IF url.scheme \in HierSchemes
    THEN IF url.host = << >> THEN ParseError
         ELSE [ok |-> TRUE, scheme |-> url.scheme,
               host |-> LowerHost(url.host),
               path |-> IF url.path = "" THEN "/" ELSE url.path,
               query |-> url.query, hash |-> url.hash]
    ELSE \* tel:, mailto:, ...: an opaque path, no host
         [ok |-> TRUE, scheme |-> url.scheme, host |-> << >>,
          path |-> url.path, query |-> url.query, hash |-> url.hash]

\* URL.href: the normalised string
Href(u) == UrlString(u.scheme, u.host, u.path, u.query, u.hash, FALSE)

\* URL.hostname, URL.pathname, URL.search, URL.hash ("" when empty or absent)
Hostname(u) == u.host
Pathname(u) == u.path
Search(u) == IF u.query = None THEN "" ELSE u.query
Hash(u) == IF u.hash = None THEN "" ELSE u.hash

\* str.split("#")[0]
BeforeHash(str) == [str EXCEPT !.hash = None]

\* href.replace(hash, "") with hash = URL.hash: nothing is removed when hash
\* is "" (a bare trailing "#" stays), else the "#fragment" goes
ReplaceHash(str, hash) == IF hash = "" THEN str ELSE [str EXCEPT !.hash = None]

\* hostname.replace(/^www\./, "")
StripWww(h) == IF Len(h) >= 2 /\ h[1] = "www" THEN Tail(h) ELSE h

\* str.startsWith("http")
StartsWithHttp(str) == str.scheme \in HierSchemes

SpecialSchemes == {"tel", "mailto", "sms", "blob", "download"}

----------------------------------------------------------------------------
\* Navigation classifier (71-175); win is window.location.href

\* toAbsoluteURL (71-78)
ToAbsoluteURL(url, win) ==
    LET u == ParseURL(url, win) IN IF u.ok THEN Href(u) ELSE url

\* variant of isHashAnchor that compares host and path, not the query
IsHashAnchorByPath(cur, new, win) ==
    LET current == ParseURL(ToAbsoluteURL(cur, win), NoBase)
        next == ParseURL(ToAbsoluteURL(new, win), NoBase)
    IN  IF ~current.ok \/ ~next.ok THEN FALSE
        ELSE current.host = next.host /\ current.path = next.path

\* isHashAnchor (80-91)
IsHashAnchor(cur, new, win) ==
    LET current == ParseURL(ToAbsoluteURL(cur, win), NoBase)
        next == ParseURL(ToAbsoluteURL(new, win), NoBase)
    IN  IF ~current.ok \/ ~next.ok THEN FALSE
        ELSE BeforeHash(Href(current)) = BeforeHash(Href(next))

\* variant of isSameHostName that compares the protocols, not the hostnames
IsSameHostNameByProtocol(cur, new, win) ==
    LET current == ParseURL(ToAbsoluteURL(cur, win), NoBase)
        next == ParseURL(ToAbsoluteURL(new, win), NoBase)
    IN  IF ~current.ok \/ ~next.ok THEN FALSE
        ELSE current.scheme = next.scheme

\* isSameHostName (93-107)
IsSameHostName(cur, new, win) ==
    LET current == ParseURL(ToAbsoluteURL(cur, win), NoBase)
        next == ParseURL(ToAbsoluteURL(new, win), NoBase)
    IN  IF ~current.ok \/ ~next.ok THEN FALSE
        ELSE StripWww(Hostname(current)) = StripWww(Hostname(next))

\* isAnchorOfCurrentUrl (109-134)
IsAnchorOfCurrentUrl(cur, new) ==
    LET currentUrlObj == ParseURL(cur, NoBase)
        newUrlObj == ParseURL(new, NoBase)
    IN  IF ~currentUrlObj.ok \/ ~newUrlObj.ok THEN FALSE
        ELSE IF /\ Hostname(currentUrlObj) = Hostname(newUrlObj)
                /\ Pathname(currentUrlObj) = Pathname(newUrlObj)
                /\ Search(currentUrlObj) = Search(newUrlObj)
        THEN /\ Hash(currentUrlObj) # Hash(newUrlObj)
             /\ ReplaceHash(Href(currentUrlObj), Hash(currentUrlObj))
                    = ReplaceHash(Href(newUrlObj), Hash(newUrlObj))
        ELSE FALSE

\* variant of shouldShowProgress whose special-scheme test returns true
ShouldShowProgressSpecialTracked(cur, new, win, hashOpt, pageOpt, w) ==
    IF ~w THEN TRUE
    ELSE IF ~IsSameHostName(cur, new, win) THEN FALSE
    ELSE IF new.scheme \in SpecialSchemes THEN TRUE
    ELSE IF cur = new THEN FALSE
    ELSE IF IsHashAnchor(cur, new, win) /\ ~hashOpt THEN FALSE
    ELSE IF IsAnchorOfCurrentUrl(cur, new) /\ ~pageOpt THEN FALSE
    ELSE IF ~StartsWithHttp(ToAbsoluteURL(new, win)) THEN FALSE
    ELSE TRUE

\* shouldShowProgress (136-175); hashOpt = showForHashAnchor,
\* pageOpt = showForSamePageAnchor, w = (typeof window !== "undefined")
ShouldShowProgress(cur, new, win, hashOpt, pageOpt, w) ==
    IF ~w THEN TRUE
    ELSE IF ~IsSameHostName(cur, new, win) THEN FALSE
    ELSE IF new.scheme \in SpecialSchemes THEN FALSE
    ELSE IF cur = new THEN FALSE
    ELSE IF IsHashAnchor(cur, new, win) /\ ~hashOpt THEN FALSE
    ELSE IF IsAnchorOfCurrentUrl(cur, new) /\ ~pageOpt THEN FALSE
    ELSE IF ~StartsWithHttp(ToAbsoluteURL(new, win)) THEN FALSE
    ELSE TRUE

----------------------------------------------------------------------------
\* URL strings the classifier is exercised on

HostA == << "a", "com" >>
HostB == << "b", "com" >>

HttpUrls ==
    { UrlString("https", h, p, q, f, FALSE) :
        h \in {HostA, HostB, << "www", "a", "com" >>, << "A", "com" >>},
        p \in {"", "/x", "/y"}, q \in {None, "?q=1"},
        f \in {None, "", "#top", "#bottom"} }

OtherUrls ==
    { UrlString("tel", << >>, "12345", None, None, FALSE),
      UrlString("mailto", << >>, "me@a.com", None, None, FALSE),
      UrlString("sms", << >>, "12345", None, None, FALSE),
      UrlString("blob", << >>, "https://a.com/uuid", None, None, FALSE),
      UrlString("download", << >>, "file.zip", None, None, FALSE),
      UrlString("javascript", << >>, "void(0)", None, None, FALSE),
      UrlString("", << >>, "", None, "#bottom", FALSE),
      UrlString("", << >>, "/y", None, None, FALSE),
      UrlString("https", << >>, "[", None, None, TRUE),
      UrlString("", << >>, "??", None, None, TRUE) }

\* window.location.href of the page the hook runs on
HomeUrl == UrlString("https", HostA, "/x", None, None, FALSE)
HomeTop == UrlString("https", HostA, "/x", None, "#top", FALSE)

CurrentUrls ==
    { u \in HttpUrls : u.host \in {HostA, << "www", "a", "com" >>}
                       /\ u.path \in {"", "/x"} /\ u.hash # "" }
        \cup { UrlString("https", << >>, "[", None, None, TRUE),
               UrlString("file", << >>, "/x", None, None, FALSE) }
NewUrls ==
    { u \in HttpUrls : u.path # "" \/ u.hash = None } \cup OtherUrls

\* hrefs of the anchors a user clicks on the page
ClickTargets ==
    { UrlString("https", HostA, "/y", None, None, FALSE),
      UrlString("https", HostB, "/y", None, None, FALSE),
      UrlString("https", HostA, "/x", None, "#top", FALSE) }

----------------------------------------------------------------------------
\* The pending callbacks: which one runs next

Min(a, b) == IF a < b THEN a ELSE b

\* index of the callback that runs next: earliest due, first inserted
NextIdx ==
    CHOOSE i \in 1..Len(timers) :
        \A j \in 1..Len(timers) :
            \/ timers[i].due < timers[j].due
            \/ (timers[i].due = timers[j].due /\ i <= j)

RemoveAt(ts, i) == SubSeq(ts, 1, i - 1) \o SubSeq(ts, i + 1, Len(ts))

\* the callback of kind k is the next to run, and it is due
Due(k) ==
    /\ timers # << >>
    /\ timers[NextIdx].due <= now
    /\ timers[NextIdx].k = k

\* the hook's state with the running callback taken off the pending ones
Taken == [St EXCEPT !.timers = RemoveAt(timers, NextIdx)]

FrameDelays == {FrameMin, FrameMax}

\* the handler or callback a that ran last, n the step name it was given
Did(a, n) == [a |-> a, n |-> n, op |-> a]
\* ... and what a callback or the passing of time records: op stays the last
\* operation invoked from outside
Then(a) == [a |-> a, n |-> "-", op |-> last.op]

\* a step of a timer or frame callback named a, leaving the hook in s
Callback(a, s) ==
    /\ \E r \in {Render(s)} : Commit(r)
    /\ last' = Then(a)
    /\ UNCHANGED <<optVars, prevPath, pathname, ops, urlVars>>

\* a step of an external operation named a, leaving the hook in s
Operation(a, n, s) ==
    /\ ops < MaxOps
    /\ ops' = ops + 1
    /\ \E r \in {Render(s)} : Commit(r)
    /\ last' = Did(a, n)
    /\ UNCHANGED <<optVars, urlVars>>

----------------------------------------------------------------------------
\* External operations

\* handleClick (383-410) on an anchor without target, no modifier key
Click ==
    \E href \in ClickTargets :
        /\ ~isUnmounted
        /\ ShouldShowProgress(HomeUrl, href, HomeUrl, showForHashAnchor,
                              showForSamePageAnchor, TRUE)
        /\ Operation("start", "-", StartNavigation(St, status))
        /\ UNCHANGED <<prevPath, pathname>>

\* variant of the route-change effect that starts whatever the status is
PathChangeAlways ==
    /\ ~isUnmounted
    /\ pathname' = IF pathname = "/x" THEN "/y" ELSE "/x"
    /\ prevPath' = pathname'
    /\ Operation("start", "-", StartNavigation(St, status))

\* the route source reports a new path: route-change effect (413-420)
PathChange ==
    /\ ~isUnmounted
    /\ pathname' = IF pathname = "/x" THEN "/y" ELSE "/x"
    /\ prevPath' = pathname'
    /\ IF status # "loading"
       THEN Operation("start", "-", StartNavigation(St, status))
       ELSE Operation("pathIgnored", "-", St)

\* finish() called by the user, or by the wrapped pushState / replaceState,
\* popstate, pagehide (431-442)
CallFinish ==
    /\ Operation("finish", "-", Finish(St))
    /\ UNCHANGED <<prevPath, pathname>>

\* reset() called by the user
CallReset ==
    /\ Operation("reset", "-", Reset(St))
    /\ UNCHANGED <<prevPath, pathname>>

StepNames == {"component_mount", "resources_load", "data_fetch", "unknown"}

\* markStepComplete(name) called by the user, with the function of the
\* latest render
CallMarkStepComplete ==
    \E stepName \in StepNames, d \in FrameDelays :
        /\ Operation("markStepComplete", stepName,
                     MarkStepComplete(St, stepName, status, d))
        /\ UNCHANGED <<prevPath, pathname>>

\* the component unmounts: effect cleanups (447-453, 462, 526-530, 535-539)
Unmount ==
    /\ ~isUnmounted
    /\ ops < MaxOps
    /\ ops' = ops + 1
    /\ \E r \in {[ListenerCleanup(EffectCleanup(St)) EXCEPT
                     !.isUnmounted = TRUE,
                     !.timers = CancelHeld(
                         IF timeoutRef THEN CancelHeld(@, {"navTimeout"})
                         ELSE @,
                         IF rafRef THEN {"raf"} ELSE {})]} : Commit(r)
    /\ last' = Did("unmount", "-")
    /\ UNCHANGED <<optVars, prevPath, pathname, urlVars>>

----------------------------------------------------------------------------
\* Passage of time

\* an instant of the past, d later (None-like values are no instants)
Past(t, d) ==
    IF t > now THEN t
    ELSE IF t - d < now - Horizon THEN now - Horizon ELSE t - d

ShiftSteps(reg, d) ==
    [i \in 1..Len(reg) |-> [reg[i] EXCEPT !.timestamp = Past(@, d)]]

ShiftTimers(ts, d) == [i \in 1..Len(ts) |-> [ts[i] EXCEPT !.due = @ - d]]

\* d milliseconds pass
Elapse(d) ==
    /\ timers' = ShiftTimers(timers, d)
    /\ stepsRef' = ShiftSteps(stepsRef, d)
    /\ startTime' = Past(startTime, d)
    /\ lastUpdateTime' = Past(lastUpdateTime, d)
    /\ UNCHANGED <<optVars, status, progress, duration, error, prevPath,
                   timeoutRef, rafRef, isUnmounted, pathname, urlVars,
                   history, originals>>

\* nothing is due: time passes until the next callback is due
Advance ==
    /\ timers # << >>
    /\ timers[NextIdx].due > now
    /\ Elapse(timers[NextIdx].due - now)
    /\ last' = Then("advance")
    /\ UNCHANGED ops

\* the user waits one debounce interval (no callback is due before)
Wait ==
    /\ ops < MaxOps
    /\ timers # << >> => timers[NextIdx].due > now + debounceMs
    /\ Elapse(debounceMs)
    /\ ops' = ops + 1
    /\ last' = Then("wait")

----------------------------------------------------------------------------
\* Timer and frame callbacks

\* setTimeout(() => { if (!isUnmounted) setStatus("loading") }, 0) (306-310)
LoadingCommit(s) ==
    IF s.isUnmounted THEN s ELSE [s EXCEPT !.status = "loading"]

FireLoadingCommit ==
    /\ Due("loadingCommit")
    /\ Callback("loadingCommit", LoadingCommit(Taken))

\* setTimeout(() => markStepComplete("route_change"), 10) (313)
FireRouteChange ==
    /\ Due("routeChange")
    /\ \E d \in FrameDelays :
           Callback("routeChange",
                    MarkStepComplete(Taken, "route_change",
                                     timers[NextIdx].cs, d))

\* the navigation timeout (316-334), up to its deferred commit
NavTimeout(s) ==
    IF s.isUnmounted THEN s
    ELSE AddTimer(s, Timer("errorCommit", now, "-", 0, FALSE))

FireNavTimeout ==
    /\ Due("navTimeout")
    /\ Callback("navTimeout", NavTimeout(Taken))

\* variant of the error commit that sets the status without the message
ErrorCommitNoMessage(s) ==
    IF s.isUnmounted THEN s ELSE [s EXCEPT !.status = "error"]

\* the deferred error commit (328-333)
ErrorCommit(s) ==
    IF s.isUnmounted THEN s
    ELSE [s EXCEPT !.status = "error", !.error = "Navigation timeout"]

FireErrorCommit ==
    /\ Due("errorCommit")
    /\ Callback("errorCommit", ErrorCommit(Taken))

\* the frame callback of updateProgress (209-245)
FrameCallback(s, cs) ==
    IF s.isUnmounted THEN s
    ELSE [AddTimer(s, Timer("progressCommit", now, cs,
                            NewProgress(s.stepsRef), FALSE))
             EXCEPT !.rafRef = FALSE]

FireRaf ==
    /\ Due("raf")
    /\ Callback("raf", FrameCallback(Taken, timers[NextIdx].cs))

\* variant of the progress commit without the isUnmounted test
ProgressCommitUnguarded(s, cs, newProgress) ==
    LET s1 == [s EXCEPT !.progress = newProgress]
        s2 == IF s1.startTime <= now
              THEN [s1 EXCEPT !.duration = now - s1.startTime]
              ELSE s1
    IN  IF enableAutoComplete /\ newProgress = 100 /\ cs = "loading"
        THEN AddTimer(s2, Timer("autoFinish", now + AutoFinishDelay,
                                "-", 0, FALSE))
        ELSE s2

\* the deferred progress commit (226-242)
ProgressCommit(s, cs, newProgress) ==
    IF s.isUnmounted THEN s
    ELSE LET s1 == [s EXCEPT !.progress = newProgress]
             s2 == IF s1.startTime <= now
                   THEN [s1 EXCEPT !.duration = now - s1.startTime]
                   ELSE s1
         IN  IF enableAutoComplete /\ newProgress = 100 /\ cs = "loading"
             THEN AddTimer(s2, Timer("autoFinish", now + AutoFinishDelay,
                                     "-", 0, FALSE))
             ELSE s2

FireProgressCommit ==
    /\ Due("progressCommit")
    /\ Callback("progressCommit",
                ProgressCommit(Taken, timers[NextIdx].cs, timers[NextIdx].v))

\* setTimeout(() => finish(), 50) (239)
FireAutoFinish ==
    /\ Due("autoFinish")
    /\ Callback("autoFinish", Finish(Taken))

\* variant of the commit of finish that forgets setStatus("complete")
FinishCommitProgressOnly(s) ==
    IF s.isUnmounted THEN s
    ELSE AddTimer([s EXCEPT !.progress = 100],
                  Timer("idleCommit", now + IdleDelay, "-", 0, FALSE))

\* the deferred commit of finish (353-368)
FinishCommit(s) ==
    IF s.isUnmounted THEN s
    ELSE AddTimer([s EXCEPT !.progress = 100, !.status = "complete"],
                  Timer("idleCommit", now + IdleDelay, "-", 0, FALSE))

FireFinishCommit ==
    /\ Due("finishCommit")
    /\ Callback("finishCommit", FinishCommit(Taken))

\* variant of the return to idle that also rebuilds the registry
IdleCommitClearsRegistry(s) ==
    IF s.isUnmounted THEN s
    ELSE [s EXCEPT !.status = "idle", !.progress = 0, !.duration = 0,
                   !.error = None, !.stepsRef = InitSteps(steps)]

\* variant of the return to idle that leaves the progress where it is
IdleCommitKeepsProgress(s) ==
    IF s.isUnmounted THEN s
    ELSE [s EXCEPT !.status = "idle", !.duration = 0, !.error = None]

\* the return to idle after the animation (359-366)
IdleCommit(s) ==
    IF s.isUnmounted THEN s
    ELSE [s EXCEPT !.status = "idle", !.progress = 0, !.duration = 0,
                   !.error = None]

FireIdleCommit ==
    /\ Due("idleCommit")
    /\ Callback("idleCommit", IdleCommit(Taken))

\* the component-mount timer (459-461)
FireComponentMount ==
    /\ Due("componentMount")
    /\ \E d \in FrameDelays :
           Callback("componentMount",
                    MarkStepComplete(Taken, "component_mount",
                                     timers[NextIdx].cs, d))

\* the hydration timer (475-483)
Hydration(s, cs, d) ==
    IF s.isUnmounted THEN s
    ELSE LET i == FindStep(s.stepsRef, "component_mount")
         IN  IF i # 0 /\ s.stepsRef[i].completed
             THEN MarkStepComplete(s, "hydration", cs, d)
             ELSE s

FireHydration ==
    /\ Due("hydration")
    /\ \E d \in FrameDelays :
           Callback("hydration", Hydration(Taken, timers[NextIdx].cs, d))

\* checkResources (485-505); loaded: no image of the document is still
\* loading; live: the effect that set this callback has not been cleaned up
CheckResources(s, cs, d, loaded, live) ==
    IF s.isUnmounted THEN s
    ELSE IF loaded THEN MarkStepComplete(s, "resources_load", cs, d)
    ELSE AddTimer(s, Timer("resourceTimer", now + ResourceTimerDelay,
                           cs, 0, live))

FireCheckResources ==
    /\ Due("checkResources")
    /\ \E d \in FrameDelays, loaded \in BOOLEAN :
           Callback("checkResources",
                    CheckResources(Taken, timers[NextIdx].cs, d, loaded,
                                   timers[NextIdx].f))

\* the resource timer (499-503)
FireResourceTimer ==
    /\ Due("resourceTimer")
    /\ \E d \in FrameDelays :
           Callback("resourceTimer",
                    MarkStepComplete(Taken, "resources_load",
                                     timers[NextIdx].cs, d))

RECURSIVE MarkEach(_, _, _, _, _)
\* incompleteSteps.forEach((step) => markStepComplete(step.name)) (515-517)
MarkEach(s, reg, i, cs, d) ==
    IF i > Len(reg) THEN s
    ELSE CHOOSE r \in
             { MarkEach(s1, reg, i + 1, cs, d) :
                 s1 \in { IF reg[i].completed THEN s
                          ELSE MarkStepComplete(s, reg[i].name, cs, d) } } :
             TRUE

\* the fallback timer (509-524)
Fallback(s, cs, d) ==
    IF s.isUnmounted THEN s ELSE MarkEach(s, s.stepsRef, 1, cs, d)

FireFallback ==
    /\ Due("fallback")
    /\ \E d \in FrameDelays :
           Callback("fallback", Fallback(Taken, timers[NextIdx].cs, d))

----------------------------------------------------------------------------
\* The tracker

Init ==
    /\ timeout = DefaultTimeout
    /\ steps \in Templates
    /\ enableAutoComplete \in BOOLEAN
    /\ debounceMs = DefaultDebounceMs
    /\ showForHashAnchor = FALSE
    /\ showForSamePageAnchor = FALSE
    /\ status = "idle"
    /\ progress = 0
    /\ duration = 0
    /\ error = None
    /\ prevPath = "/x"
    /\ startTime = Null
    /\ timeoutRef = FALSE
    /\ rafRef = FALSE
    /\ stepsRef = InitSteps(steps)
    /\ lastUpdateTime = Past(now, Horizon)
    /\ isUnmounted = FALSE
    /\ pathname = "/x"
    /\ timers = << >>
    /\ ops = 0
    /\ last = Did("mount", "-")
    /\ hasWindow = TRUE
    /\ locationHref = HomeUrl
    /\ currentUrl = HomeUrl
    /\ newUrl = HomeUrl
    /\ shown = << >>
    /\ nativeHistory = [e \in Entries |-> Native]
    /\ history = Mounted(nativeHistory).history
    /\ originals = Mounted(nativeHistory).originals

Next ==
    \/ Click
    \/ PathChange
    \/ CallFinish
    \/ CallReset
    \/ CallMarkStepComplete
    \/ Unmount
    \/ Wait
    \/ Advance
    \/ FireLoadingCommit
    \/ FireRouteChange
    \/ FireNavTimeout
    \/ FireErrorCommit
    \/ FireRaf
    \/ FireProgressCommit
    \/ FireAutoFinish
    \/ FireFinishCommit
    \/ FireIdleCommit
    \/ FireComponentMount
    \/ FireHydration
    \/ FireCheckResources
    \/ FireResourceTimer
    \/ FireFallback

Spec == Init /\ [][Next]_vars

\* every callback the host owes the hook runs: timers and frames fire
TimerStep ==
    \/ Advance
    \/ FireLoadingCommit
    \/ FireRouteChange
    \/ FireNavTimeout
    \/ FireErrorCommit
    \/ FireRaf
    \/ FireProgressCommit
    \/ FireAutoFinish
    \/ FireFinishCommit
    \/ FireIdleCommit
    \/ FireComponentMount
    \/ FireHydration
    \/ FireCheckResources
    \/ FireResourceTimer
    \/ FireFallback

FairSpec == Spec /\ WF_vars(TimerStep)

\* the hook mounted with a debounce interval shorter than a frame
\* (useNavigationProgress({debounceMs: 5}), option read at 48)
ShortDebounceInit ==
    /\ timeout = DefaultTimeout
    /\ steps \in Templates
    /\ enableAutoComplete \in BOOLEAN
    /\ debounceMs = ShortDebounceMs
    /\ showForHashAnchor = FALSE
    /\ showForSamePageAnchor = FALSE
    /\ status = "idle"
    /\ progress = 0
    /\ duration = 0
    /\ error = None
    /\ prevPath = "/x"
    /\ startTime = Null
    /\ timeoutRef = FALSE
    /\ rafRef = FALSE
    /\ stepsRef = InitSteps(steps)
    /\ lastUpdateTime = Past(now, Horizon)
    /\ isUnmounted = FALSE
    /\ pathname = "/x"
    /\ timers = << >>
    /\ ops = 0
    /\ last = Did("mount", "-")
    /\ hasWindow = TRUE
    /\ locationHref = HomeUrl
    /\ currentUrl = HomeUrl
    /\ newUrl = HomeUrl
    /\ shown = << >>
    /\ nativeHistory = [e \in Entries |-> Native]
    /\ history = Mounted(nativeHistory).history
    /\ originals = Mounted(nativeHistory).originals

ShortDebounceSpec == ShortDebounceInit /\ [][Next]_vars

\* variant of the steps-initialisation effect that also clears the committed
\* progress and the start time
StepsChangeClearsProgress ==
    /\ ~isUnmounted
    /\ ops < MaxOps
    /\ ops' = ops + 1
    /\ \E tpl \in Templates :
           /\ steps' = tpl
           /\ stepsRef' = InitSteps(tpl)
    /\ \E r \in {ListenerSetup(ListenerCleanup(St))} :
           /\ history' = r.history
           /\ originals' = r.originals
    /\ progress' = 0
    /\ startTime' = Null
    /\ last' = Did("stepsChange", "-")
    /\ UNCHANGED <<timeout, enableAutoComplete, debounceMs, showForHashAnchor,
                   showForSamePageAnchor, status, duration, error,
                   prevPath, timeoutRef, rafRef, lastUpdateTime,
                   isUnmounted, pathname, timers, urlVars>>

\* the component re-renders with another steps array (the same template in a
\* new array, or another template): steps-initialisation effect (178-183)
StepsChange ==
    /\ ~isUnmounted
    /\ ops < MaxOps
    /\ ops' = ops + 1
    /\ \E tpl \in Templates :
           /\ steps' = tpl
           /\ stepsRef' = InitSteps(tpl)
    /\ \E r \in {ListenerSetup(ListenerCleanup(St))} :
           /\ history' = r.history
           /\ originals' = r.originals
    /\ last' = Did("stepsChange", "-")
    /\ UNCHANGED <<timeout, enableAutoComplete, debounceMs, showForHashAnchor,
                   showForSamePageAnchor, status, progress, duration, error,
                   prevPath, startTime, timeoutRef, rafRef, lastUpdateTime,
                   isUnmounted, pathname, timers, urlVars>>

\* the hook with a steps option that may change between renders
StepsNext == Next \/ StepsChange

StepsSpec == Init /\ [][StepsNext]_vars

StepsFairSpec == StepsSpec /\ WF_vars(TimerStep)

\* some code calls history.pushState(...) or history.replaceState(...): the
\* function now at the entry point runs, and with it finish() if the
\* tracker's wrapper is part of it (431-439); calls after the teardown are
\* not counted as operations
CallHistory ==
    \E e \in Entries :
        LET n == IF InvokesFinish(history[e]) THEN "finish" ELSE "-"
        IN  IF ~isUnmounted
            THEN /\ Operation(e, n, IF n = "finish" THEN Finish(St) ELSE St)
                 /\ UNCHANGED <<prevPath, pathname>>
            ELSE /\ last' = Did(e, n)
                 /\ UNCHANGED <<optVars, hookVars, pathname, timers, ops,
                                urlVars>>

\* the hook mounted on a window whose entry points are the browser's own or
\* already patched by other code
BridgeInit ==
    /\ timeout = DefaultTimeout
    /\ steps = DEFAULT_STEPS
    /\ enableAutoComplete \in BOOLEAN
    /\ debounceMs = DefaultDebounceMs
    /\ showForHashAnchor = FALSE
    /\ showForSamePageAnchor = FALSE
    /\ status = "idle"
    /\ progress = 0
    /\ duration = 0
    /\ error = None
    /\ prevPath = "/x"
    /\ startTime = Null
    /\ timeoutRef = FALSE
    /\ rafRef = FALSE
    /\ stepsRef = InitSteps(steps)
    /\ lastUpdateTime = Past(now, Horizon)
    /\ isUnmounted = FALSE
    /\ pathname = "/x"
    /\ timers = << >>
    /\ ops = 0
    /\ last = Did("mount", "-")
    /\ hasWindow = TRUE
    /\ locationHref = HomeUrl
    /\ currentUrl = HomeUrl
    /\ newUrl = HomeUrl
    /\ shown = << >>
    /\ nativeHistory \in [Entries -> {Native, Patched}]
    /\ history = Mounted(nativeHistory).history
    /\ originals = Mounted(nativeHistory).originals

BridgeNext == Next \/ StepsChange \/ CallHistory

BridgeSpec == BridgeInit /\ [][BridgeNext]_vars

----------------------------------------------------------------------------
\* The classifier as a pure function: inputs drawn at Init, one application

ClassifierInit ==
    /\ timeout = DefaultTimeout
    /\ steps = DEFAULT_STEPS
    /\ enableAutoComplete = TRUE
    /\ debounceMs = DefaultDebounceMs
    /\ showForHashAnchor \in BOOLEAN
    /\ showForSamePageAnchor \in BOOLEAN
    /\ status = "idle"
    /\ progress = 0
    /\ duration = 0
    /\ error = None
    /\ prevPath = "/x"
    /\ startTime = Null
    /\ timeoutRef = FALSE
    /\ rafRef = FALSE
    /\ stepsRef = InitSteps(steps)
    /\ lastUpdateTime = Past(now, Horizon)
    /\ isUnmounted = FALSE
    /\ pathname = "/x"
    /\ timers = << >>
    /\ ops = 0
    /\ last = Did("mount", "-")
    /\ hasWindow \in BOOLEAN
    /\ locationHref \in {HomeUrl, HomeTop}
    /\ currentUrl \in CurrentUrls
    /\ newUrl \in NewUrls
    /\ shown = << >>
    /\ nativeHistory = [e \in Entries |-> Native]
    /\ history = Mounted(nativeHistory).history
    /\ originals = Mounted(nativeHistory).originals

\* shouldShowProgress(currentUrl, newUrl) is evaluated
Classify ==
    /\ shown = << >>
    /\ shown' = << ShouldShowProgress(currentUrl, newUrl, locationHref,
                                   showForHashAnchor, showForSamePageAnchor,
                                   hasWindow) >>
    /\ last' = Did("shouldShowProgress", "-")
    /\ UNCHANGED <<optVars, hookVars, pathname, timers, ops, hasWindow,
                   locationHref, currentUrl, newUrl, nativeHistory>>

ClassifierNext == Classify

ClassifierSpec == ClassifierInit /\ [][ClassifierNext]_vars

----------------------------------------------------------------------------
\* Vocabulary of the properties

AllCompleted(reg) == \A i \in 1..Len(reg) : reg[i].completed
NoneCompleted(reg) == \A i \in 1..Len(reg) : ~reg[i].completed
Pending(k) == \E i \in 1..Len(timers) : timers[i].k = k

\* finish() has just been invoked (by a caller, an event, or the 50 ms timer)
FinishInvoked == last.a \in {"finish", "autoFinish"} /\ ~isUnmounted

IdleState ==
    status = "idle" /\ progress = 0 /\ duration = 0 /\ error = None

CallbackNames ==
    {"loadingCommit", "routeChange", "navTimeout", "errorCommit", "raf",
     "progressCommit", "autoFinish", "finishCommit", "idleCommit",
     "componentMount", "hydration", "checkResources", "resourceTimer",
     "fallback"}

----------------------------------------------------------------------------
\* C1: on a mounted tracker finish(), whatever the status and the registry it
\* is invoked on, leaves every step completed, and its commit follows: the
\* tracker gets to progress = 100 with status = "complete" (or is torn down
\* first).
C1_FinishCompletes ==
    /\ [](FinishInvoked => AllCompleted(stepsRef))
    /\ FinishInvoked ~> (isUnmounted \/ (progress = 100 /\ status = "complete"))

\* finish() was invoked in status "error" (the message is still there) and
\* its commit has run
C1_Witness ==
    /\ last.a = "finishCommit"
    /\ ~isUnmounted
    /\ status = "complete" /\ progress = 100
    /\ error = "Navigation timeout"

\* C2: whenever the committed status is "complete" on a mounted tracker, the
\* return to idle is pending and due within the 300 ms grace period, and the
\* tracker gets to status = "idle", progress = 0, duration = 0, error
\* undefined with no call from outside (unless it is torn down first).
C2_ReturnsToIdle ==
    /\ [](status = "complete" /\ ~isUnmounted =>
            \E i \in 1..Len(timers) :
                timers[i].k = "idleCommit" /\ timers[i].due <= now + IdleDelay)
    /\ (status = "complete" /\ ~isUnmounted) ~> (isUnmounted \/ IdleState)

\* the grace timer has just brought a completed session back to idle
C2_Witness ==
    /\ last.a = "idleCommit"
    /\ ~isUnmounted
    /\ IdleState
    /\ ops = 1
    /\ AllCompleted(stepsRef)

\* C3: right after reset() on a mounted tracker the observable state is idle,
\* 0, 0, undefined and no step of the registry is completed.
C3_ResetYieldsIdle ==
    (last.a = "reset" /\ ~isUnmounted) =>
        (IdleState /\ NoneCompleted(stepsRef))

\* reset() ran during a loading session with auto-complete (the resource
\* check of that session is still pending)
C3_Witness ==
    /\ last.a = "reset"
    /\ ~isUnmounted
    /\ Pending("checkResources")
    /\ Pending("progressCommit")

\* C4: markStepComplete is idempotent on the registry: on every reachable
\* registry, for every step name, a second call at a later time leaves the
\* registry (flags and timestamps) as the first call left it.
C4_MarkIdempotent ==
    \A n \in StepNames \cup {"route_change", "hydration"} :
        \A t1 \in {now - RouteChangeDelay, now - 1} :
            MarkStep(MarkStep(stepsRef, n, t1), n, now)
                = MarkStep(stepsRef, n, t1)

\* a caller has just repeated markStepComplete for a step completed earlier
C4_Witness ==
    /\ last.a = "markStepComplete"
    /\ \E i \in 1..Len(stepsRef) :
           /\ stepsRef[i].name = last.n
           /\ stepsRef[i].completed
           /\ stepsRef[i].timestamp < now

\* C5: in a session whose registry has positive total weight and whose only
\* completions are markStepComplete calls (here those of the tracker's own
\* timers, the session's one external operation being its start), once
\* nothing is pending any more the reported progress is the calculator's
\* percentage of the registry.
C5_ProgressReflectsRegistry ==
    (/\ ops = 1
     /\ ~isUnmounted
     /\ status = "error"
     /\ timers = << >>
     /\ TotalWeight(stepsRef) > 0)
        => progress = NewProgress(stepsRef)

\* C6: with auto-complete enabled, a loading session whose steps were all
\* completed by markStepComplete calls finishes by itself: the timeout never
\* commits an error on a fully completed registry for which no finish is
\* under way.
C6_AutoFinishes ==
    ~(/\ enableAutoComplete
      /\ ~isUnmounted
      /\ last.a = "errorCommit"
      /\ status = "error"
      /\ AllCompleted(stepsRef)
      /\ ~Pending("autoFinish")
      /\ ~Pending("finishCommit")
      /\ ~Pending("idleCommit"))

\* C7: start arms the navigation timeout, due timeoutMs later; only its own
\* firing, finish, reset, a new start or the teardown take it away; when it
\* fires on a mounted tracker the error commit follows and sets status =
\* "error" with the message "Navigation timeout"; no callback arms a new
\* timeout (nothing retries); a start or reset in status "error" clears it.
C7_TimeoutSetsError ==
    /\ [](last.a = "start" /\ ~isUnmounted =>
            /\ timeoutRef
            /\ \E i \in 1..Len(timers) :
                   /\ timers[i].k = "navTimeout"
                   /\ timers[i].f
                   /\ timers[i].due = now + timeout)
    /\ [][(Pending("navTimeout") /\ ~Pending("navTimeout")') =>
            last'.a \in {"navTimeout", "finish", "autoFinish", "reset",
                         "unmount"}]_vars
    /\ [][(~Pending("navTimeout") /\ Pending("navTimeout")') =>
            last'.a = "start"]_vars
    /\ [][(last'.a = "navTimeout" /\ ~isUnmounted) =>
            Pending("errorCommit")']_vars
    /\ [][(last'.a = "errorCommit" /\ ~isUnmounted) =>
            (status' = "error" /\ error' = "Navigation timeout")]_vars
    /\ [][(status = "error" /\ ~isUnmounted /\ last'.a \in {"start", "reset"})
            => (status' = "idle" /\ error' = None)]_vars
    /\ (last.a = "navTimeout" /\ ~isUnmounted) ~>
           (isUnmounted \/ (status = "error" /\ error = "Navigation timeout"))

\* the timeout of a session has committed its error
C7_Witness ==
    /\ last.a = "errorCommit"
    /\ ~isUnmounted
    /\ status = "error"
    /\ error = "Navigation timeout"

\* a session whose one external operation was its start has timed out
TimedOutUntouched ==
    /\ ops = 1
    /\ ~isUnmounted
    /\ last.a = "errorCommit"
    /\ status = "error"

C9_NoCommitAfterTeardown ==
    [][(isUnmounted /\ last'.a \in CallbackNames) =>
          UNCHANGED <<status, progress, duration, error, stepsRef>>]_vars

\* a progress commit that was pending at teardown has run
C9_Witness ==
    /\ isUnmounted
    /\ last.a = "progressCommit"

\* the target differs from the current URL in its fragment only
FragmentOnly(cur, new) ==
    LET c == ParseURL(cur, NoBase)
        n == ParseURL(new, NoBase)
    IN  /\ c.ok /\ n.ok
        /\ c.scheme \in HierSchemes
        /\ c.scheme = n.scheme
        /\ Hostname(c) = Hostname(n)
        /\ Pathname(c) = Pathname(n)
        /\ c.query = n.query
        /\ Hash(c) # Hash(n)

\* C10: for a target that differs from the current URL in its fragment only,
\* the other options at their defaults, shouldShowProgress returns the value
\* of showForHashAnchor.
C10_HashAnchorOption ==
    (/\ shown # << >>
     /\ hasWindow
     /\ ~showForSamePageAnchor
     /\ FragmentOnly(currentUrl, newUrl))
        => shown[1] = showForHashAnchor

\* the URL a string stands for on the page (ParseError when it stands for
\* none), and its hostname without one leading "www" label
Resolved(url) == ParseURL(url, locationHref)
HostKey(u) ==
    IF Len(u.host) >= 2 /\ u.host[1] = "www" THEN Tail(u.host) ELSE u.host

\* shouldShowProgress has been evaluated in a browser host
Classified == shown # << >> /\ hasWindow

\* C11: in a browser host, when the current or the target URL cannot be
\* parsed, shouldShowProgress returns true, whatever the options.
C11_FailsOpen ==
    (/\ Classified
     /\ ~Resolved(currentUrl).ok \/ ~Resolved(newUrl).ok)
        => shown[1] = TRUE

\* C12: in a browser host, for parseable URLs whose hostnames differ after
\* removing one leading "www." label, shouldShowProgress returns false
\* whatever the options; http(s) URLs whose hostnames differ only by a
\* leading "www." are one host: with different paths the target is tracked.
C12_ForeignHostRejected ==
    LET c == Resolved(currentUrl)
        n == Resolved(newUrl)
    IN  (Classified /\ c.ok /\ n.ok) =>
            /\ HostKey(c) # HostKey(n) => shown[1] = FALSE
            /\ (/\ HostKey(c) = HostKey(n)
                /\ c.host # n.host
                /\ c.scheme \in HierSchemes /\ n.scheme \in HierSchemes
                /\ c.path # n.path) => shown[1] = TRUE

\* a target on the "www." spelling of the current host has been tracked
C12_Witness ==
    /\ Classified
    /\ shown[1] = TRUE
    /\ Resolved(currentUrl).ok /\ Resolved(newUrl).ok
    /\ Resolved(currentUrl).host # Resolved(newUrl).host
    /\ Resolved(currentUrl).path # Resolved(newUrl).path
    /\ HostKey(Resolved(currentUrl)) = HostKey(Resolved(newUrl))

\* C13: in a browser host, for every target whose scheme is tel:, mailto:,
\* sms:, blob: or download:, every current URL and all options,
\* shouldShowProgress returns false.
C13_SpecialSchemeRejected ==
    (/\ Classified
     /\ newUrl.scheme \in {"tel", "mailto", "sms", "blob", "download"})
        => shown[1] = FALSE

\* a special-scheme target that passes the hostname test (the page has no
\* host either) has been rejected
C13_Witness ==
    /\ Classified
    /\ shown[1] = FALSE
    /\ newUrl.scheme = "download"
    /\ Resolved(currentUrl).ok
    /\ Resolved(currentUrl).host = << >>

\* C14: in a browser host, for http(s) URLs on one host whose path or query
\* differ, shouldShowProgress returns true whatever the two anchor options
\* are; for a target identical to the current URL it returns false.
C14_OtherPageTracked ==
    LET c == Resolved(currentUrl)
        n == Resolved(newUrl)
    IN  Classified =>
            /\ (/\ c.ok /\ n.ok
                /\ c.scheme \in HierSchemes /\ n.scheme \in HierSchemes
                /\ HostKey(c) = HostKey(n)
                /\ c.path # n.path \/ Search(c) # Search(n))
                   => shown[1] = TRUE
            /\ currentUrl = newUrl => shown[1] = FALSE

\* a same-host target with another query, its fragment equal to the current
\* one, has been tracked with both anchor options off
C14_Witness ==
    /\ Classified
    /\ shown[1] = TRUE
    /\ ~showForHashAnchor /\ ~showForSamePageAnchor
    /\ currentUrl.host = newUrl.host
    /\ currentUrl.path = newUrl.path
    /\ currentUrl.query # newUrl.query
    /\ currentUrl.hash = "#top" /\ newUrl.hash = "#top"

\* C15: with a template of positive weights, the reported progress is an
\* integer between 0 and 100 in every reachable state.
C15_ProgressInRange ==
    (\A i \in 1..Len(steps) : steps[i].weight > 0) => progress \in 0..100

\* a progress commit has reported a value strictly between the ends
C15_Witness ==
    /\ last.a = "progressCommit"
    /\ ~isUnmounted
    /\ \A i \in 1..Len(steps) : steps[i].weight > 0
    /\ progress \in 1..99

\* C16: when the total weight of the registry is zero, a progress
\* recomputation commits 0 as the progress.
C16_ZeroWeightReportsZero ==
    (/\ TotalWeight(stepsRef) = 0
     /\ last.a = "progressCommit"
     /\ ~isUnmounted)
        => progress = 0

\* the orderings of a set of step names, the registry after the calls of an
\* ordering from its i-th on, and the completed flags of a registry
Orderings(S) ==
    {f \in [1..Cardinality(S) -> S] :
        \A i, j \in 1..Cardinality(S) : i # j => f[i] # f[j]}

RECURSIVE MarkAll(_, _, _)
MarkAll(reg, order, i) ==
    IF i > Len(order) THEN reg
    ELSE MarkAll(MarkStep(reg, order[i], now), order, i + 1)

Flags(reg) == [i \in 1..Len(reg) |-> reg[i].completed]

\* C17: on a fresh registry (that of each template, as the mount leaves it),
\* any two orderings of the same markStepComplete calls give the same
\* completed flags and the same calculator percentage: every ordering agrees
\* with one of them.
C17_MarkCommutes ==
    (last.a = "mount" /\ NoneCompleted(stepsRef)) =>
        \A S \in SUBSET (StepNames \cup {"route_change", "hydration"}) :
            Cardinality(S) <= MaxCalls =>
                LET one == CHOOSE g \in Orderings(S) : TRUE
                    reg == MarkAll(stepsRef, one, 1)
                IN  \A f \in Orderings(S) :
                        /\ Flags(MarkAll(stepsRef, f, 1)) = Flags(reg)
                        /\ NewProgress(MarkAll(stepsRef, f, 1))
                               = NewProgress(reg)

\* component_mount, then resources_load, have been marked on the fresh
\* registry of the default template, and the flags are those of the calls
\* made in the other order
C17_Witness ==
    /\ last.a = "markStepComplete" /\ last.n = "resources_load"
    /\ ops = 2
    /\ status = "idle"
    /\ steps = DEFAULT_STEPS
    /\ stepsRef[2].completed /\ stepsRef[4].completed
    /\ stepsRef[2].timestamp < stepsRef[4].timestamp
    /\ Flags(stepsRef) = Flags(MarkAll(InitSteps(steps),
                                       << "resources_load",
                                          "component_mount" >>, 1))

\* the default of the timeout option in the options table of README.md
DocumentedTimeout == 10000

\* C18: without a timeout option, the navigation timeout is due 10000 ms
\* after start.
C18_DefaultTimeoutDocumented ==
    (last.a = "start" /\ ~isUnmounted) =>
        \E i \in 1..Len(timers) :
            /\ timers[i].k = "navTimeout"
            /\ timers[i].f
            /\ timers[i].due = now + DocumentedTimeout

\* C19: reset() cancels everything that is pending: as long as nothing is
\* invoked after it, the status stays idle and the progress stays 0.
C19_ResetCancelsAll ==
    (last.op = "reset" /\ ~isUnmounted) => (status = "idle" /\ progress = 0)

\* C20: after a start, no callback of an earlier session changes the status,
\* the progress or the registry of the new session.  With nothing invoked
\* since the start, the session that is loading is therefore never taken
\* back to idle by a callback: the only callback that commits idle is the
\* 300 ms complete-to-idle timer, and a loading session has not completed.
C20_OneSession ==
    [][(/\ last.op = "start"
        /\ ~isUnmounted
        /\ status = "loading"
        /\ last'.a \in CallbackNames) => status' # "idle"]_vars

\* C21: right after the teardown no timer and no frame callback scheduled by
\* the tracker is pending any more.
C21_TeardownCancelsAll ==
    last.a = "unmount" => timers = << >>

\* the operations and event handlers that are invoked from outside
OperationNames ==
    {"start", "pathIgnored", "finish", "reset", "markStepComplete"}

\* C22: no public operation and no event handler changes the status, the
\* progress, the duration or the error inside the call.
C22_NoInlineCommit ==
    [][last'.a \in OperationNames =>
          UNCHANGED <<status, progress, duration, error>>]_vars

\* C23: every status change is idle -> loading, loading -> complete,
\* loading -> error, complete -> idle, or a reset to idle (by reset or at
\* the beginning of start).
C23_LegalTransitions ==
    [][status' # status =>
          \/ status = "idle" /\ status' = "loading"
          \/ status = "loading" /\ status' \in {"complete", "error"}
          \/ status = "complete" /\ status' = "idle"
          \/ status' = "idle" /\ last'.a \in {"reset", "start"}]_vars

\* C24: whenever the status is loading the step named route_change, when the
\* registry has one, is completed; right after start no other step is.
C24_RouteChangeImmediate ==
    LET i == FindStep(stepsRef, "route_change")
    IN  /\ (status = "loading" /\ ~isUnmounted /\ i # 0)
               => stepsRef[i].completed
        /\ (last.a = "start" /\ ~isUnmounted)
               => \A j \in 1..Len(stepsRef) :
                      j # i => ~stepsRef[j].completed

\* the navigation-timeout timers that are armed
NavTimeouts == {i \in 1..Len(timers) : timers[i].k = "navTimeout"}

\* C25: a start, also one invoked while a session is loading, leaves the
\* registry with no step completed, the start time at the present and one
\* timeout timer armed a full timeout ahead; in every reachable state at
\* most one navigation-timeout timer is armed.
C25_StartRestarts ==
    /\ Cardinality(NavTimeouts) <= 1
    /\ (last.a = "start" /\ ~isUnmounted) =>
           /\ NoneCompleted(stepsRef)
           /\ startTime = now
           /\ \E i \in NavTimeouts :
                  timers[i].f /\ timers[i].due = now + timeout

\* a click has restarted a session that was loading (its resource check,
\* set up by the loading render, is still pending)
C25_Witness ==
    /\ last.a = "start"
    /\ ops = 2
    /\ ~isUnmounted
    /\ pathname = "/x"
    /\ Pending("checkResources")
    /\ Cardinality(NavTimeouts) = 1

\* C26: a change of the current path while the status is loading starts
\* nothing: registry, start time, timers, timeout handle, status and
\* progress are left as they were, and the change is consumed (the previous
\* path equals the current one, so a later run of the effect does nothing)
\* and no callback arms a timeout timer or stamps a start time; a change of
\* the path in any other status is one start: the registry is rebuilt, the
\* start time is the present and one timeout timer is armed.
C26_PathChangeWhileLoading ==
    /\ [][pathname' # pathname =>
             /\ prevPath' = pathname'
             /\ IF status = "loading"
                THEN UNCHANGED <<stepsRef, startTime, timers, timeoutRef,
                                 status, progress>>
                ELSE /\ ops' = ops + 1
                     /\ startTime' = now
                     /\ NoneCompleted(stepsRef')
                     /\ Cardinality(NavTimeouts') = 1
                     /\ \A i \in NavTimeouts' :
                            timers'[i].due = now + timeout]_vars
    /\ [][last'.a \in CallbackNames =>
             /\ prevPath' = prevPath
             /\ startTime' \in {startTime, Null}
             /\ Cardinality(NavTimeouts') <= Cardinality(NavTimeouts)]_vars

\* the path has changed while a session was loading
C26_Witness ==
    /\ last.a = "pathIgnored"
    /\ status = "loading"
    /\ ~NoneCompleted(stepsRef)
    /\ Cardinality(NavTimeouts) = 1

\* the callbacks of the auxiliary heuristics
HeuristicNames ==
    {"componentMount", "hydration", "checkResources", "resourceTimer",
     "fallback"}

\* C27: a timer of the auxiliary heuristics completes a step only while the
\* status is loading and auto-complete is enabled.
C27_HeuristicsGuarded ==
    [][(last'.a \in HeuristicNames /\ Flags(stepsRef') # Flags(stepsRef))
           => (enableAutoComplete /\ status = "loading")]_vars

\* C28: when the fallback timer fires on a loading session with auto-complete
\* enabled, every step is completed and the progress is 100 or is on its way
\* there: a frame request, a progress commit or a finish is pending.
C28_FallbackCompletes ==
    [][(/\ last'.a = "fallback"
        /\ enableAutoComplete
        /\ ~isUnmounted'
        /\ status' = "loading"
        /\ TotalWeight(stepsRef') > 0)
           => /\ AllCompleted(stepsRef')
              /\ \/ progress' = 100
                 \/ \E i \in 1..Len(timers') :
                        timers'[i].k \in {"raf", "progressCommit",
                                          "autoFinish", "finishCommit"}]_vars

\* the frame requests of the update scheduler that are pending
Rafs == {i \in 1..Len(timers) : timers[i].k = "raf"}

\* C29: in every reachable state at most one frame request is pending, it is
\* the one whose handle the hook holds, and right after a reset or the
\* teardown none is pending.
C29_SingleFrame ==
    /\ Cardinality(Rafs) <= 1
    /\ \A i \in Rafs : timers[i].f /\ rafRef
    /\ last.a \in {"reset", "unmount"} => Rafs = {}

\* the update for component_mount has replaced the frame requested 6 ms
\* before for route_change: that frame has not fired (nothing was committed
\* and no commit is pending), and one frame request is pending
C29_Witness ==
    /\ last.a = "componentMount"
    /\ ops = 1
    /\ last.op = "start"
    /\ lastUpdateTime = now
    /\ LET i == FindStep(stepsRef, "route_change")
       IN  i # 0 /\ stepsRef[i].completed /\ stepsRef[i].weight > 0
    /\ progress = 0
    /\ ~Pending("progressCommit")
    /\ Cardinality(Rafs) = 1

\* C30: an update request is accepted (the time of the last update is
\* stamped anew) only if the last accepted one lies at least debounceMs
\* back, whatever happened in between (reset, a new session); a step in
\* which none is accepted requests no frame.
C30_OnePerWindow ==
    [][last'.a \notin {"advance", "wait"} =>
          IF lastUpdateTime' # lastUpdateTime
          THEN /\ lastUpdateTime' = now
               /\ now - lastUpdateTime >= debounceMs
               /\ Cardinality(Rafs') = 1
          ELSE Cardinality(Rafs') <= Cardinality(Rafs)]_vars

\* the update for the route change of a second session has been dropped: the
\* step was completed now, the last accepted update (before the restart) is
\* less than debounceMs back, and no frame is requested
C30_Witness ==
    /\ last.a = "routeChange"
    /\ ops = 2
    /\ last.op = "start"
    /\ ~isUnmounted
    /\ LET i == FindStep(stepsRef, "route_change")
       IN  i # 0 /\ stepsRef[i].completed /\ stepsRef[i].timestamp = now
    /\ lastUpdateTime < now
    /\ now - lastUpdateTime < debounceMs
    /\ Rafs = {}

\* C31: within a session the committed progress never decreases: a step
\* that is neither a start, a reset nor the return to idle commits no
\* percentage smaller than the one committed before.
C31_ProgressMonotone ==
    [][(/\ last'.a \notin {"start", "reset", "idleCommit"}
        /\ progress # NaN
        /\ progress' # NaN)
           => progress' >= progress]_vars

\* C32: a step that is completed stays completed in every step of the
\* tracker except a reset, a start (which resets first) and a change of the
\* steps template.
C32_CompletedSticks ==
    [][(\E i \in 1..Len(stepsRef) :
            /\ stepsRef[i].completed
            /\ \/ i > Len(stepsRef')
               \/ stepsRef'[i].name # stepsRef[i].name
               \/ ~stepsRef'[i].completed)
           => last'.a \in {"reset", "start", "stepsChange"}]_vars

\* a session whose registry was rebuilt by a template change has finished
\* and returned to idle with every step still completed
C32_Witness ==
    /\ last.a = "idleCommit"
    /\ last.op = "stepsChange"
    /\ ~isUnmounted
    /\ status = "idle"
    /\ stepsRef # << >>
    /\ AllCompleted(stepsRef)

\* C33: a markStepComplete call that names no step of the registry, or a
\* step that is already completed, changes nothing: registry, status,
\* progress, duration and error stay as they are, no frame is requested, no
\* timer is set and the time of the last update is not stamped.
C33_AbsorbedCall ==
    [][(/\ last'.a = "markStepComplete"
        /\ LET i == FindStep(stepsRef, last'.n)
           IN  i = 0 \/ stepsRef[i].completed)
           => UNCHANGED <<stepsRef, status, progress, duration, error,
                          timers, rafRef, lastUpdateTime>>]_vars

\* a caller has named an unknown step during a loading session, at a time
\* when an update request would have been accepted
C33_Witness ==
    /\ last.a = "markStepComplete"
    /\ last.n = "unknown"
    /\ ~isUnmounted
    /\ status = "loading"
    /\ now - lastUpdateTime >= debounceMs
    /\ Rafs = {}

\* C34: a change of the steps template rebuilds the registry, one entry per
\* step of the new template, in the template's order, none completed, and
\* leaves status, progress, duration, error, start time, the timeout handle
\* and every pending timer and frame as they were.
C34_TemplateChange ==
    [][last'.a = "stepsChange" =>
          /\ Len(stepsRef') = Len(steps')
          /\ \A i \in 1..Len(steps') :
                 /\ stepsRef'[i].name = steps'[i].name
                 /\ stepsRef'[i].weight = steps'[i].weight
                 /\ ~stepsRef'[i].completed
          /\ UNCHANGED <<status, progress, duration, error, startTime,
                         timeoutRef, rafRef, timers, lastUpdateTime>>]_vars

\* the template has changed during a loading session that had committed a
\* progress and had its timeout armed
C34_Witness ==
    /\ last.a = "stepsChange"
    /\ status = "loading"
    /\ progress > 0
    /\ startTime # Null
    /\ timeoutRef
    /\ Cardinality(NavTimeouts) = 1
    /\ stepsRef # << >>
    /\ NoneCompleted(stepsRef)

\* C35: while the tracker is mounted each history entry point is the
\* function that was there before the mount with one tracker wrapper around
\* it, so a call invokes finish and then that function; after the teardown
\* each entry point is again the function that was there before the mount,
\* and a call invokes no finish; this after any number of re-installations
\* of the listener effect.
C35_BridgeRoundTrip ==
    /\ [](\A e \in Entries :
              history[e] = IF isUnmounted THEN nativeHistory[e]
                           ELSE Append(nativeHistory[e], "finish"))
    /\ [][last'.a \in Entries =>
             (last'.n = "finish" <=> ~isUnmounted)]_vars

\* after the teardown of a tracker whose listener effect was re-installed by
\* the loading render, pushState, patched by other code before the mount,
\* has been called and has invoked no finish
C35_Witness ==
    /\ isUnmounted
    /\ status = "loading"
    /\ last.a = "pushState"
    /\ last.n = "-"
    /\ nativeHistory.pushState = Patched
    /\ history = nativeHistory

\* C36: whenever the committed status is idle (and the registry has a
\* positive total weight, so that a percentage is defined), the committed
\* progress and the duration are 0.
C36_IdleMeansZero ==
    (status = "idle" /\ TotalWeight(stepsRef) > 0)
        => (progress = 0 /\ duration = 0)

\* C37: the error message is defined exactly when the committed status is
\* error.
C37_ErrorIffErrorStatus ==
    (error # None) <=> (status = "error")

\* C38: after finish() has been invoked and until the next start, no
\* callback commits the status error.
C38_NoErrorAfterFinish ==
    [][(last.op = "finish" /\ last'.a \in CallbackNames /\ ~isUnmounted)
           => ~(status' = "error" /\ status # "error")]_vars

\* C39: a mounted tracker whose committed status is loading has a way out
\* of loading without outside help: some timer or frame callback of the
\* tracker is still pending (when none is, nothing will ever change the
\* status again unless a caller or an event intervenes).
C39_LoadingHasExit ==
    (status = "loading" /\ ~isUnmounted) => timers # << >>

====
